---- MODULE Spec2Model ----
(***************************************************************************)
(* Model of the SAM3X8E power-management-controller clock configuration    *)
(* (src/src/pmc.rs): the CFGR builder, CFGR::freeze and the Clocks record. *)
(*                                                                         *)
(* A u32 of the program is a pair <<hi, lo>> of 16-bit limbs, value        *)
(* hi * 2^16 + lo, because the frequencies and their products do not fit   *)
(* the model checker's machine integers.  The exact (unwrapped) result of  *)
(* a u32 multiplication is such a pair whose hi limb may exceed 16 bits.   *)
(***************************************************************************)
EXTENDS Integers, Sequences, FiniteSets, TLC

VARIABLES
    master_clock,     \* CFGR.master_clock : Option<u32>, [some, val]
    clock_source,     \* CFGR.clock_source : ClockSource
    moscrcf,          \* hardware: CKGR_MOR.MOSCRCF field (2 bits)
    overflow_checks,  \* build: TRUE = arithmetic overflow panics, FALSE = it wraps
    locka,            \* hardware: PMC_SR.LOCKA
    mckrdy,           \* hardware: PMC_SR.MCKRDY
    ckgr_pllar,       \* hardware: CKGR_PLLAR register, [diva, mula]
    pmc_mckr,         \* hardware: PMC_MCKR register, [css, pres]
    pc,               \* position of the program
    main_clock_freq,  \* local of freeze
    mck,              \* local of freeze
    pres,             \* local of freeze
    pllmul,           \* local of freeze (PllClock arm)
    div,              \* local of freeze (divisor arms)
    pres_bits,        \* local of freeze (divisor arms)
    w,                \* the register writer proxy inside pmc_mckr.write's closure
    trace,            \* history: hardware register writes and status reads that ended a spin
    clocks,           \* the returned Clocks record: <<>> or <<record>>
    panic             \* why freeze panicked, "" if it did not

vars == <<master_clock, clock_source, moscrcf, overflow_checks, locka, mckrdy,
          ckgr_pllar, pmc_mckr, pc, main_clock_freq, mck, pres, pllmul, div,
          pres_bits, w, trace, clocks, panic>>

-----------------------------------------------------------------------------
(* u32 arithmetic on 16-bit limbs *)

W16 == 2^16

U32(n) == <<n \div W16, n % W16>>

MaxU32 == <<W16 - 1, W16 - 1>>

IsU32(a) == a[1] \in 0..(W16 - 1) /\ a[2] \in 0..(W16 - 1)

WLe(a, b) == a[1] < b[1] \/ (a[1] = b[1] /\ a[2] <= b[2])

WLt(a, b) == a[1] < b[1] \/ (a[1] = b[1] /\ a[2] < b[2])

WSub(a, b) ==
    IF a[2] >= b[2] THEN <<a[1] - b[1], a[2] - b[2]>>
                    ELSE <<a[1] - b[1] - 1, a[2] + W16 - b[2]>>

WAdd(a, b) ==
    LET lo == a[2] + b[2]
    IN  <<a[1] + b[1] + (lo \div W16), lo % W16>>

\* 2 * r + b, b a bit.
WShl1Add(r, b) ==
    LET lo == r[2] * 2 + b
    IN  <<r[1] * 2 + (lo \div W16), lo % W16>>

\* The number a u32 below 2^31 stands for.
ToInt(a) == a[1] * W16 + a[2]

\* a / b on u32 (b # 0), truncating.  Operands below 2^31 divide directly; a
\* divisor from 2^31 on goes into the dividend at most once; otherwise the
\* dividend is halved, divided, and the quotient doubled and corrected by the
\* bit the remainder and the dropped bit add.
UDiv(a, b) ==
    IF a[1] < 2^15 /\ b[1] < 2^15 THEN U32(ToInt(a) \div ToInt(b))
    ELSE IF b[1] >= 2^15 THEN (IF WLe(b, a) THEN <<0, 1>> ELSE <<0, 0>>)
    ELSE LET half == (a[1] \div 2) * W16 + (a[1] % 2) * 2^15 + (a[2] \div 2)
             low == a[2] % 2
             bb == ToInt(b)
             q == half \div bb
             r == half % bb
         IN  WShl1Add(U32(q), IF r >= bb - r - low THEN 1 ELSE 0)

\* The exact product a * k of a u32 and a number below 2^15.
WMul(a, k) ==
    LET lo == a[2] * k
    IN  <<a[1] * k + (lo \div W16), lo % W16>>

\* The u32 a product wraps to when overflow checks are off.
Wrap32(x) == <<x[1] % W16, x[2]>>

Min(a, b) == IF a < b THEN a ELSE b

Max(a, b) == IF a > b THEN a ELSE b

-----------------------------------------------------------------------------
(* Constants and pure parts of CFGR::freeze *)

SLOW_CLOCK_FREQ == 32768

None == [some |-> FALSE, val |-> <<0, 0>>]

Some(v) == [some |-> TRUE, val |-> v]

\* Option::unwrap_or
UnwrapOr(o, d) == IF o.some THEN o.val ELSE d

ClockSource == {"MainClock", "SlowClock", "PllClock"}

\* The value standing for a panic of unreachable!().
Trap == <<-1, -1>>

\* The same match with a catch-all arm that accepts the reserved reading.
MainClockFreqCatchAll(m) ==
    CASE m = 0 -> U32(4000000)
      [] m = 1 -> U32(8000000)
      [] OTHER -> U32(12000000)

\* match pmc.ckgr_mor.read().moscrcf().variant()
MainClockFreq(m) ==
    CASE m = 0 -> U32(4000000)
      [] m = 1 -> U32(8000000)
      [] m = 2 -> U32(12000000)
      [] OTHER -> Trap

\* cmp::min(cmp::max(pllmul, 2), 2048) without the upper limit.
ClampPllMulNoUpper(m) == Max(m, 2)

\* cmp::min(cmp::max(pllmul, 2), 2048)
ClampPllMul(m) == Min(Max(m, 2), 2048)

\* (x / main) as u16 : the low 16 bits of the u32 quotient.
AsU16(x) == x[2]

\* 2 * ((target + main / 2) / main) as u16 : the quotient rounded to nearest.
PllMulRawRounded(target, main) ==
    LET q == AsU16(UDiv(target, main))
        r == WSub(target, WMul(main, q))
    IN  2 * (q + IF WLe(main, WMul(r, 2)) THEN 1 ELSE 0)

\* 2 * (target / main) as u16, before the u16 overflow check.
PllMulRaw(target, main) == 2 * AsU16(UDiv(target, main))

\* let pres_bits = match div { ... }; -1 stands for the unreachable!() arm.
PresBits(d) ==
    CASE d = <<0, 0>> -> -1
      [] d = <<0, 1>> -> 0
      [] d = <<0, 2>> -> 1
      [] d = <<0, 3>> -> 7
      [] d = <<0, 4>> -> 2
      [] d[1] = 0 /\ d[2] \in 5..8 -> 3
      [] d[1] = 0 /\ d[2] \in 9..16 -> 4
      [] d[1] = 0 /\ d[2] \in 17..32 -> 5
      [] OTHER -> 6

\* 2u16.pow(pres_bits) without the divisor-3 case.
PresOfPow(d, bits) == 2^bits

\* pres = if div != 3 { 2u16.pow(pres_bits.into()) } else { 3 }
PresOf(d, bits) == IF d # <<0, 3>> THEN 2^bits ELSE 3

\* The PllClock arm storing its multiplier in pres.
ArmPresMultiplier(src, p, d, bits, m) == IF src = "PllClock" THEN m ELSE PresOf(d, bits)

\* pres after the match on clock_source: the PllClock arm never assigns it.
ArmPres(src, p, d, bits, m) == IF src = "PllClock" THEN p ELSE PresOf(d, bits)

\* let mut mck = self.master_clock.unwrap_or(SLOW_CLOCK_FREQ)
EntryMck == UnwrapOr(master_clock, U32(SLOW_CLOCK_FREQ))

-----------------------------------------------------------------------------
(* Inputs: the frequencies a caller may pass to CFGR::master_clock *)

MaxDivisor == 34

MaxTargetSteps == 42

MHz == 10^6

SourceFreqs == {SLOW_CLOCK_FREQ, 4 * MHz, 8 * MHz, 12 * MHz}

\* source / k for every source and k, so that every row of the divisor table is met.
DivisorTargets == {U32(f \div k) : f \in SourceFreqs, k \in 1..MaxDivisor}

\* multiples of 100 MHz through the u32 range.
PllTargets == {t \in {WMul(U32(100 * MHz), k) : k \in 0..MaxTargetSteps} : IsU32(t)}

EdgeTargets ==
    {U32(0), U32(1), U32(500), U32(32767), U32(32769), U32(6 * MHz), U32(12 * MHz + 1),
     U32(13 * MHz), U32(18 * MHz), U32(20 * MHz), <<W16 - 1, 0>>, MaxU32}

Targets == DivisorTargets \cup PllTargets \cup EdgeTargets

-----------------------------------------------------------------------------
(* Hardware registers and the history of accesses *)

\* Reset value of PMC_MCKR, which the writer proxy of write() starts from.
MckrReset == [css |-> "MAIN_CLK", pres |-> 0]

PllarReset == [diva |-> 0, mula |-> 0]

Ev(e) == [ev |-> e, css |-> "", pres |-> 0, diva |-> 0, mula |-> 0, bit |-> FALSE]

EvRead(e, b) == [Ev(e) EXCEPT !.bit = b]

EvWriteMckr(r) == [Ev("write_mckr") EXCEPT !.css = r.css, !.pres = r.pres]

EvWritePllar(r) == [Ev("write_pllar") EXCEPT !.diva = r.diva, !.mula = r.mula]

Init ==
    /\ master_clock = None
    /\ clock_source = "SlowClock"
    /\ moscrcf \in 0..3
    /\ overflow_checks \in BOOLEAN
    /\ locka \in BOOLEAN
    /\ mckrdy \in BOOLEAN
    /\ ckgr_pllar = PllarReset
    /\ pmc_mckr = MckrReset
    /\ pc = "builder"
    /\ main_clock_freq = <<0, 0>>
    /\ mck = <<0, 0>>
    /\ pres = 0
    /\ pllmul = 0
    /\ div = <<0, 0>>
    /\ pres_bits = 0
    /\ w = MckrReset
    /\ trace = <<>>
    /\ clocks = <<>>
    /\ panic = ""

hw == <<moscrcf, overflow_checks, locka, mckrdy, ckgr_pllar, pmc_mckr>>
locals == <<main_clock_freq, mck, pres, pllmul, div, pres_bits, w>>

\* CFGR::master_clock
MasterClock ==
    /\ pc = "builder"
    /\ \E freq \in Targets : master_clock' = Some(freq)
    /\ UNCHANGED <<clock_source, hw, pc, locals, trace, clocks, panic>>

\* CFGR::clock_source
ClockSourceSet ==
    /\ pc = "builder"
    /\ \E src \in ClockSource : clock_source' = src
    /\ UNCHANGED <<master_clock, hw, pc, locals, trace, clocks, panic>>

\* The hardware raises PMC_SR.LOCKA once the PLL has locked.
HwPllLock ==
    /\ ~locka
    /\ locka' = TRUE
    /\ UNCHANGED <<master_clock, clock_source, moscrcf, overflow_checks, mckrdy,
                   ckgr_pllar, pmc_mckr, pc, locals, trace, clocks, panic>>

\* The hardware raises PMC_SR.MCKRDY once the master clock is established.
HwMasterClockReady ==
    /\ ~mckrdy
    /\ mckrdy' = TRUE
    /\ UNCHANGED <<master_clock, clock_source, moscrcf, overflow_checks, locka,
                   ckgr_pllar, pmc_mckr, pc, locals, trace, clocks, panic>>

\* freeze panics: the common end of every panicking path.
Panic(reason) ==
    /\ pc' = "panic"
    /\ panic' = reason

\* freeze, entry to the unreachable!() of the main oscillator match.
FreezeUnsupportedOscillator ==
    /\ pc = "builder"
    /\ MainClockFreq(moscrcf) = Trap
    /\ mck' = EntryMck
    /\ pres' = 1
    /\ Panic("UnsupportedOscillatorReading")
    /\ UNCHANGED <<master_clock, clock_source, hw, main_clock_freq, pllmul, div,
                   pres_bits, w, trace, clocks>>

\* freeze, PllClock arm, entry to the spin on LOCKA.  The hardware drops LOCKA
\* when CKGR_PLLAR is written, and raises it again once the PLL has locked.
FreezePllClock ==
    /\ pc = "builder"
    /\ clock_source = "PllClock"
    /\ MainClockFreq(moscrcf) # Trap
    /\ LET main == MainClockFreq(moscrcf)
           raw == PllMulRaw(UnwrapOr(master_clock, main), main)
           mul == ClampPllMul(raw % W16)
           reg == [diva |-> 2 % 2^8, mula |-> (mul - 1) % 2^11]
       IN  /\ main_clock_freq' = main
           /\ mck' = EntryMck
           /\ pres' = 1
           /\ IF raw >= W16 /\ overflow_checks
              THEN /\ Panic("Overflow")
                   /\ UNCHANGED <<pllmul, ckgr_pllar, locka, trace>>
              ELSE /\ pllmul' = mul
                   /\ ckgr_pllar' = reg
                   /\ locka' = FALSE
                   /\ trace' = Append(trace, EvWritePllar(reg))
                   /\ pc' = "pll_lock"
                   /\ UNCHANGED panic
    /\ UNCHANGED <<master_clock, clock_source, moscrcf, overflow_checks, mckrdy,
                   pmc_mckr, div, pres_bits, w, clocks>>

\* freeze, a divisor arm, entry to the first spin on MCKRDY.
FreezeDivisor(source_freq, css) ==
    /\ pc = "builder"
    /\ MainClockFreq(moscrcf) # Trap
    /\ main_clock_freq' = MainClockFreq(moscrcf)
    /\ mck' = EntryMck
    /\ pres' = 1
    /\ IF EntryMck = <<0, 0>>
       THEN /\ Panic("DivideByZero")
            /\ UNCHANGED <<div, pres_bits, w>>
       ELSE LET d == UDiv(source_freq, EntryMck)
            IN  /\ div' = d
                /\ IF ~WLe(EntryMck, source_freq)
                   THEN /\ Panic("InvalidFrequencyTarget")
                        /\ UNCHANGED <<pres_bits, w>>
                   ELSE IF PresBits(d) = -1
                   THEN /\ Panic("Unreachable")
                        /\ UNCHANGED <<pres_bits, w>>
                   ELSE /\ pres_bits' = PresBits(d)
                        /\ w' = [MckrReset EXCEPT !.css = css]
                        /\ pc' = "mckr_rdy1"
                        /\ UNCHANGED panic
    /\ UNCHANGED <<master_clock, clock_source, hw, pllmul, trace, clocks>>

\* freeze, SlowClock arm.
FreezeSlowClock ==
    /\ clock_source = "SlowClock"
    /\ FreezeDivisor(U32(SLOW_CLOCK_FREQ), "SLOW_CLK")

\* freeze, MainClock arm.
FreezeMainClock ==
    /\ clock_source = "MainClock"
    /\ FreezeDivisor(MainClockFreq(moscrcf), "MAIN_CLK")

\* The PllClock arm going on without looking at LOCKA.
PllLockNoSpin ==
    /\ pc = "pll_lock"
    /\ trace' = Append(trace, EvRead("read_locka", locka))
    /\ w' = [MckrReset EXCEPT !.pres = 0]
    /\ pc' = "mckr_rdy1"
    /\ UNCHANGED <<master_clock, clock_source, hw, main_clock_freq, mck, pres,
                   pllmul, div, pres_bits, clocks, panic>>

\* while pmc.pmc_sr.read().locka().bit_is_clear() {} ; then w.pres().clk_1()
PllLockSpin ==
    /\ pc = "pll_lock"
    /\ locka
    /\ trace' = Append(trace, EvRead("read_locka", locka))
    /\ w' = [MckrReset EXCEPT !.pres = 0]
    /\ pc' = "mckr_rdy1"
    /\ UNCHANGED <<master_clock, clock_source, hw, main_clock_freq, mck, pres,
                   pllmul, div, pres_bits, clocks, panic>>

\* The first spin on MCKRDY inside the closure, then the second field of the proxy.
MckrdySpin1 ==
    /\ pc = "mckr_rdy1"
    /\ mckrdy
    /\ trace' = Append(trace, EvRead("read_mckrdy", mckrdy))
    /\ w' = IF clock_source = "PllClock"
            THEN [w EXCEPT !.css = "PLLA_CLK"]
            ELSE [w EXCEPT !.pres = pres_bits % 2^3]
    /\ pc' = "mckr_rdy2"
    /\ UNCHANGED <<master_clock, clock_source, hw, main_clock_freq, mck, pres,
                   pllmul, div, pres_bits, clocks, panic>>

\* The second spin on MCKRDY, the one store of pmc_mckr.write, and the rest of freeze.
\* The closure only edits the writer proxy w; write() stores the register once,
\* after the closure has returned.  The hardware drops MCKRDY on that store.
MckrdySpin2 ==
    /\ pc = "mckr_rdy2"
    /\ mckrdy
    /\ trace' = trace \o <<EvRead("read_mckrdy", mckrdy), EvWriteMckr(w)>>
    /\ pmc_mckr' = w
    /\ mckrdy' = FALSE
    /\ LET prod == WMul(main_clock_freq, pllmul)
           p == ArmPres(clock_source, pres, div, pres_bits, pllmul)
           m == IF clock_source = "PllClock" THEN Wrap32(prod) ELSE UDiv(mck, U32(p))
       IN  IF clock_source = "PllClock" /\ prod[1] >= W16 /\ overflow_checks
           THEN /\ Panic("Overflow")
                /\ UNCHANGED <<mck, pres, clocks>>
           ELSE /\ pres' = p
                /\ mck' = m
                /\ clocks' = <<[clock_source |-> clock_source,
                                slck |-> U32(SLOW_CLOCK_FREQ),
                                main_clock_freq |-> main_clock_freq,
                                pllack |-> UDiv(m, main_clock_freq),
                                master_clock_freq |-> m,
                                pres |-> p]>>
                /\ pc' = "done"
                /\ UNCHANGED panic
    /\ UNCHANGED <<master_clock, clock_source, moscrcf, overflow_checks, locka,
                   ckgr_pllar, main_clock_freq, pllmul, div, pres_bits, w>>

Next ==
    \/ MasterClock
    \/ ClockSourceSet
    \/ HwPllLock
    \/ HwMasterClockReady
    \/ FreezeUnsupportedOscillator
    \/ FreezePllClock
    \/ FreezeSlowClock
    \/ FreezeMainClock
    \/ PllLockSpin
    \/ MckrdySpin1
    \/ MckrdySpin2

Spec == Init /\ [][Next]_vars


-----------------------------------------------------------------------------
(* Vocabulary of the properties *)

Done == pc = "done"

Rec == clocks[1]

DivisorPath == clock_source \in {"SlowClock", "MainClock"}

PllPath == clock_source = "PllClock"

\* The frequency of the n-th main oscillator class, n in 0..2.
OscHz(n) == U32((n + 1) * 4 * MHz)

\* The frequency of the selected divisor source.
SourceHz == IF clock_source = "SlowClock" THEN U32(32768) ELSE OscHz(moscrcf)

\* The prescaler a PMC_MCKR.PRES code denotes: CLK_1 .. CLK_64, and 7 = CLK_3.
PrescalerOfCode(c) == IF c = 7 THEN 3 ELSE 2^c

\* The documented divisor table: <<first divisor, last divisor (0: none), code, prescaler>>.
Table ==
    {<<1, 1, 0, 1>>, <<2, 2, 1, 2>>, <<3, 3, 7, 3>>, <<4, 4, 2, 4>>, <<5, 8, 3, 8>>,
     <<9, 16, 4, 16>>, <<17, 32, 5, 32>>, <<33, 0, 6, 64>>}

\* floor(src / t) lies in the row's range, stated without division.
InRow(row, src, t) ==
    /\ WLe(WMul(t, row[1]), src)
    /\ row[2] # 0 => WLt(src, WMul(t, row[2] + 1))

\* q = floor(a / k) for a small k, stated without division.
IsFloorDiv(q, a, k) == WLe(WMul(q, k), a) /\ WLt(a, WMul(WAdd(q, <<0, 1>>), k))

WritesIn(t) == {i \in DOMAIN t : t[i].ev \in {"write_mckr", "write_pllar"}}

\* C1 (as claimed): on a divisor path the record's master_clock_freq is
\* floor(source_freq / applied_prescaler), the prescaler being the one the code
\* written to PMC_MCKR denotes.
C1_MckIsSourceOverPrescaler ==
    (Done /\ DivisorPath) =>
        /\ Rec.pres = PrescalerOfCode(pmc_mckr.pres)
        /\ IsFloorDiv(Rec.master_clock_freq, SourceHz, Rec.pres)

\* C2: on both divisor paths the code written to PMC_MCKR.PRES and the prescaler
\* recorded follow the divisor table, divisor 3 giving code 7 and prescaler 3, and
\* the prescaler is 2^code except for code 7.
C2_TableFollowed ==
    (Done /\ DivisorPath) =>
        /\ \A row \in Table :
              \/ div[1] # 0
              \/ div[2] < row[1]
              \/ (row[2] # 0 /\ div[2] > row[2])
              \/ (pmc_mckr.pres = row[3] /\ Rec.pres = row[4])
        /\ div[1] # 0 => (pmc_mckr.pres = 6 /\ Rec.pres = 64)
        /\ master_clock.some =>
              \A row \in Table :
                  InRow(row, SourceHz, master_clock.val) =>
                      (pmc_mckr.pres = row[3] /\ Rec.pres = row[4])
        /\ Rec.pres \in {1, 2, 3, 4, 8, 16, 32, 64}
        /\ Rec.pres = PrescalerOfCode(pmc_mckr.pres)

C2_Witness ==
    /\ Done
    /\ clock_source = "MainClock"
    /\ master_clock = Some(U32(4 * MHz))
    /\ moscrcf = 2
    /\ pmc_mckr.pres = 7
    /\ Rec.pres = 3

\* C3 (as claimed): every returning freeze stores PMC_MCKR twice, one field per
\* store, and observes MCKRDY set after each store before going on or returning.
C3_TwoStoresEachFollowedByReady ==
    Done =>
        LET ws == {i \in DOMAIN trace : trace[i].ev = "write_mckr"}
        IN  /\ Cardinality(ws) = 2
            /\ \A i \in ws :
                  /\ i < Len(trace)
                  /\ trace[i + 1].ev = "read_mckrdy"
                  /\ trace[i + 1].bit

\* The configuration is one freeze must reject: a reserved oscillator reading, or
\* a requested target above the source on a divisor path.
ConfigRejected ==
    \/ moscrcf \notin 0..2
    \/ DivisorPath /\ master_clock.some /\ ~WLe(master_clock.val, SourceHz)

\* C4: a freeze of a rejected configuration panics with the rejection before any
\* store to CKGR_PLLAR or PMC_MCKR: the registers keep their values and no Clocks
\* record exists.
C4_RejectedBeforeAnyWrite ==
    (pc # "builder" /\ ConfigRejected) =>
        /\ pc = "panic"
        /\ panic \in {"UnsupportedOscillatorReading", "InvalidFrequencyTarget"}
        /\ WritesIn(trace) = {}
        /\ ckgr_pllar = PllarReset
        /\ pmc_mckr = MckrReset
        /\ clocks = <<>>

C4_Witness ==
    /\ pc = "panic"
    /\ panic = "InvalidFrequencyTarget"
    /\ clock_source = "MainClock"
    /\ moscrcf = 2
    /\ master_clock = Some(U32(13 * MHz))
    /\ pmc_mckr = MckrReset

\* C5 (as claimed): with no target set, freeze resolves the target to the selected
\* source's own frequency: prescaler 1 and master_clock_freq = source frequency on
\* a divisor path, multiplier 2 on the PLL path.
C5_UnsetTargetIsSourceFrequency ==
    (Done /\ ~master_clock.some) =>
        /\ DivisorPath => (Rec.pres = 1 /\ Rec.master_clock_freq = SourceHz)
        /\ PllPath => pllmul = 2

\* The PllClock arm has computed its multiplier.
PllMulComputed == PllPath /\ pc \in {"pll_lock", "mckr_rdy1", "mckr_rdy2", "done", "panic"}
                          /\ panic # "UnsupportedOscillatorReading"

\* C6: on the PLL path the applied multiplier lies in 2..2048 whatever the target,
\* and the MULA field written is the multiplier minus one.
C6_MultiplierInRange ==
    PllMulComputed =>
        /\ pllmul \in 2..2048
        /\ ckgr_pllar.mula = pllmul - 1

C6_Witness ==
    /\ PllMulComputed
    /\ master_clock = Some(MaxU32)
    /\ moscrcf = 0
    /\ pllmul = 2048

\* C7 (as claimed): on the PLL path freeze returns a record whose master_clock_freq
\* is the exact product main_osc_freq * multiplier, which never overflows.
C7_ExactProductNoOverflow ==
    (PllMulComputed /\ pc \in {"done", "panic"}) =>
        /\ Done
        /\ Rec.master_clock_freq = WMul(OscHz(moscrcf), pllmul)

\* C8 (as claimed): pres() of a PLL record is the multiplier applied, in 2..2048;
\* of a divisor record, the applied prescaler.
C8_PresIsMultiplier ==
    Done =>
        /\ PllPath => (Rec.pres = pllmul /\ Rec.pres \in 2..2048)
        /\ DivisorPath => Rec.pres = PrescalerOfCode(pmc_mckr.pres)

\* C8 (amended): pres() is the prescaler in the master clock register: 1 (CLK_1)
\* of a PLL record, whatever the multiplier; of a divisor record, the applied
\* prescaler.
C8_PresIsMckrPrescaler ==
    Done =>
        /\ PllPath => (Rec.pres = 1 /\ pmc_mckr.pres = 0)
        /\ DivisorPath => Rec.pres = PrescalerOfCode(pmc_mckr.pres)

C8_Witness ==
    /\ Done
    /\ PllPath
    /\ pllmul = 6
    /\ Rec.pres = 1

\* The target the PLL path resolves: the requested one, else the main oscillator's.
PllTarget == IF master_clock.some THEN master_clock.val ELSE OscHz(moscrcf)

\* C9 (as claimed): the multiplier is clamp(2 * round(target / main), 2, 2048),
\* the quotient rounded to the nearest integer.
C9_MultiplierRounded ==
    PllMulComputed =>
        LET m2 == WMul(PllTarget, 2)
            main == OscHz(moscrcf)
        IN  /\ pllmul % 2 = 0
            /\ pllmul = 2 => WLt(m2, WMul(main, 3))
            /\ pllmul \in 3..2047 =>
                  (WLe(WMul(main, pllmul - 1), m2) /\ WLt(m2, WMul(main, pllmul + 1)))
            /\ pllmul = 2048 => WLe(WMul(main, 2047), m2)

\* C9 (amended): the multiplier is clamp(2 * floor(target / main), 2, 2048), the
\* quotient truncated; an unset target gives multiplier 2 and a master clock of
\* twice the main oscillator.
C9_MultiplierTruncated ==
    PllMulComputed =>
        LET t == PllTarget
            main == OscHz(moscrcf)
        IN  /\ pllmul % 2 = 0
            /\ pllmul \in 2..2048
            /\ pllmul = 2 => WLt(t, WMul(main, 2))
            /\ pllmul \in 3..2047 =>
                  (WLe(WMul(main, pllmul \div 2), t) /\ WLt(t, WMul(main, pllmul \div 2 + 1)))
            /\ pllmul = 2048 => WLe(WMul(main, 1024), t)
            /\ (Done /\ ~master_clock.some) =>
                  (pllmul = 2 /\ Rec.master_clock_freq = WMul(main, 2))

C9_Witness ==
    /\ Done
    /\ PllPath
    /\ moscrcf = 2
    /\ master_clock = Some(U32(20 * MHz))
    /\ pllmul = 2

\* C10: on the PLL path CKGR_PLLAR is written (divider 2, multiplier field), then
\* LOCKA is observed set, and only then is PMC_MCKR stored, selecting PLLA with
\* prescaler code 0.
C10_PllLockedBeforeSwitch ==
    PllPath =>
        /\ \A i \in DOMAIN trace :
              trace[i].ev = "write_mckr" =>
                  /\ trace[i].css = "PLLA_CLK"
                  /\ trace[i].pres = 0
                  /\ \E j \in 1..i : \E k \in j..i :
                        /\ trace[j].ev = "write_pllar"
                        /\ trace[j].diva = 2
                        /\ trace[j].mula = pllmul - 1
                        /\ trace[k].ev = "read_locka"
                        /\ trace[k].bit
        /\ pmc_mckr.css = "PLLA_CLK" => Done \/ panic = "Overflow"
        /\ Done => pmc_mckr = [css |-> "PLLA_CLK", pres |-> 0]

C10_Witness ==
    /\ Done
    /\ PllPath
    /\ Len(trace) = 5
    /\ pmc_mckr.css = "PLLA_CLK"

-----------------------------------------------------------------------------
(* Termination of freeze *)

\* The program keeps executing its spin loops, and the hardware raises each
\* status bit in the end.
FairSpec ==
    /\ Spec
    /\ WF_vars(HwPllLock)
    /\ WF_vars(HwMasterClockReady)
    /\ WF_vars(PllLockSpin)
    /\ WF_vars(MckrdySpin1)
    /\ WF_vars(MckrdySpin2)

Spinning == pc \in {"pll_lock", "mckr_rdy1", "mckr_rdy2"}

ReadsOf(e) == {i \in DOMAIN trace : trace[i].ev = e /\ trace[i].bit}

\* freeze has seen every status bit it spins on: LOCKA on the PLL path, MCKRDY twice.
AllBitsSeen ==
    /\ Cardinality(ReadsOf("read_mckrdy")) = 2
    /\ PllPath => Cardinality(ReadsOf("read_locka")) = 1

\* C11 (as claimed): a freeze of a valid configuration returns a Clocks record
\* if and only if the hardware asserts every status bit it spins on: once all of
\* them have been seen set the record exists, and no record exists before.
C11_ReturnsIffBitsAsserted ==
    (pc # "builder" /\ ~ConfigRejected) =>
        /\ (AllBitsSeen /\ ~Spinning) => Done
        /\ Done => AllBitsSeen

\* The half of C11 that holds: no record without every bit having been seen set,
\* and a freeze waiting on a clear bit stays where it is.
C11_NoRecordBeforeBits ==
    /\ Done => AllBitsSeen
    /\ (pc = "pll_lock" /\ ~locka) => ~ENABLED PllLockSpin
    /\ (pc = "mckr_rdy1" /\ ~mckrdy) => ~ENABLED MckrdySpin1
    /\ (pc = "mckr_rdy2" /\ ~mckrdy) => ~ENABLED MckrdySpin2

\* Under fair hardware every spin ends: freeze returns, or panics on the overflow.
C11_SpinsEnd == Spinning ~> (Done \/ panic = "Overflow")

====
